---- MODULE Spec2Model ----
(***************************************************************************)
(* A model of earnings_watchlist.py: the two-week earnings watchlist       *)
(* pipeline (get_weeks, get_earnings, process_json, get_exchange,          *)
(* process_list, format_watchlist, save_watchlist, main).                  *)
(*                                                                         *)
(* Python dicts whose keys may be absent are TLA+ records with the         *)
(* corresponding field absent from their DOMAIN; an insertion-ordered dict *)
(* is a sequence of key/value items; str is a TLA+ string.                 *)
(***************************************************************************)
EXTENDS Integers, Sequences, FiniteSets, TLC

VARIABLES
    dayNo,                \* days elapsed since Anchor when the clock is read
    monday,               \* the Monday of the calendar week of `today`
    today,                \* the date datetime.today() returns
    weeks,                \* main: the list get_weeks returned
    wi,                   \* main: index of the week the for loop is at
    pc,                   \* main: position in the loop body
    earnings,             \* main: local `earnings`
    filtered,             \* main: value of process_json(earnings)
    formatted_tickers,    \* main: local `formatted_tickers`
    earnings_dict,        \* main: local `earnings_dict`
    watchlist_formatted,  \* main: local `watchlist_formatted`
    fs,                   \* the output directory and the files in it
    calls,                \* per week, the components main has called
    fetched,              \* per week, what get_earnings returned
    lookupLog,            \* per week, the outcome of each exchange lookup
    saved,                \* per week, how save_watchlist ended
    arg,                  \* input of a function applied on its own
    aux,                  \* its second input (the lookup outcomes)
    ret,                  \* its result
    called                \* whether it has been applied

vars == <<dayNo, monday, today, weeks, wi, pc, earnings, filtered, formatted_tickers,
          earnings_dict, watchlist_formatted, fs, calls, fetched, lookupLog,
          saved, arg, aux, ret, called>>

mainVars == <<weeks, wi, pc, earnings, filtered, formatted_tickers,
              earnings_dict, watchlist_formatted, fs, calls, fetched,
              lookupLog, saved>>

callVars == <<arg, aux, ret, called>>

(***************************************************************************)
(* Bounds of the model.                                                    *)
(***************************************************************************)
MaxDay == 100        \* the clock is read on Anchor + 0 .. Anchor + MaxDay
MaxRecords == 3      \* raw earnings records in one process_json input
MaxLookups == 2      \* filtered tickers in one get_exchange input
MaxResolved == 3     \* resolved tickers in one process_list input
MaxKeys == 2         \* date keys in one format_watchlist input
MaxEntries == 2      \* entries under one date key

(***************************************************************************)
(* Generic helpers.                                                        *)
(***************************************************************************)
SeqsUpTo(S, n) == UNION {[1..k -> S] : k \in 0..n}

NonEmptySeqsUpTo(S, n) == UNION {[1..k -> S] : k \in 1..n}

\* dict.get(key, default)
DictGet(d, key, default) == IF key \in DOMAIN d THEN d[key] ELSE default

\* ", ".join(strings)
RECURSIVE JoinCommaSpace(_)
JoinCommaSpace(strings) ==
    IF strings = <<>> THEN ""
    ELSE IF Len(strings) = 1 THEN strings[1]
    ELSE strings[1] \o ", " \o JoinCommaSpace(Tail(strings))

(***************************************************************************)
(* Dates: the proleptic Gregorian arithmetic behind datetime - timedelta,  *)
(* datetime.weekday() and strftime("%Y-%m-%d").                            *)
(***************************************************************************)
Date(y, m, d) == [year |-> y, month |-> m, day |-> d]

DAYS_IN_MONTH == <<31, 28, 31, 30, 31, 30, 31, 31, 30, 31, 30, 31>>

DAYS_BEFORE_MONTH == <<0, 31, 59, 90, 120, 151, 181, 212, 243, 273, 304, 334>>

is_leap(year) == year % 4 = 0 /\ (year % 100 # 0 \/ year % 400 = 0)

days_before_year(year) ==
    LET y == year - 1
    IN  y * 365 + (y \div 4) - (y \div 100) + (y \div 400)

days_before_month(year, month) ==
    DAYS_BEFORE_MONTH[month] + (IF month > 2 /\ is_leap(year) THEN 1 ELSE 0)

\* date.toordinal(): 1 is 0001-01-01
toordinal(dt) ==
    days_before_year(dt.year) + days_before_month(dt.year, dt.month) + dt.day

\* date.fromordinal(n)
fromordinal(n) ==
    LET n0   == n - 1
        n400 == n0 \div 146097
        r400 == n0 % 146097
        n100 == r400 \div 36524
        r100 == r400 % 36524
        n4   == r100 \div 1461
        r4   == r100 % 1461
        n1   == r4 \div 365
        r1   == r4 % 365
        year == n400 * 400 + 1 + n100 * 100 + n4 * 4 + n1
        leap == n1 = 3 /\ (n4 # 24 \/ n100 = 3)
        m0   == (r1 + 50) \div 32
        p0   == DAYS_BEFORE_MONTH[m0] + (IF m0 > 2 /\ leap THEN 1 ELSE 0)
        month == IF p0 > r1 THEN m0 - 1 ELSE m0
        preceding ==
            IF p0 > r1
            THEN p0 - (DAYS_IN_MONTH[month]
                       + (IF month = 2 /\ leap THEN 1 ELSE 0))
            ELSE p0
    IN  IF n1 = 4 \/ n100 = 4
        THEN Date(year - 1, 12, 31)
        ELSE Date(year, month, r1 - preceding + 1)

\* dt + timedelta(days=n)
plus_days(dt, n) == fromordinal(toordinal(dt) + n)

\* dt.isoweekday(): Monday is 1
weekday_iso(dt) == ((toordinal(dt) + 6) % 7) + 1

\* dt.weekday(): Monday is 0
weekday(dt) == (toordinal(dt) + 6) % 7

Pad2(n) == IF n < 10 THEN "0" \o ToString(n) ELSE ToString(n)

Pad4(n) ==
    IF n < 10 THEN "000" \o ToString(n)
    ELSE IF n < 100 THEN "00" \o ToString(n)
    ELSE IF n < 1000 THEN "0" \o ToString(n)
    ELSE ToString(n)

\* dt.strftime("%Y-%m-%d")
strftime(dt) == Pad4(dt.year) \o "-" \o Pad2(dt.month) \o "-" \o Pad2(dt.day)

\* get_weeks, before the dates are formatted
week_dates(now) ==
    LET start_of_week      == plus_days(now, 0 - weekday(now))
        end_of_week        == plus_days(start_of_week, 4)
        start_of_next_week == plus_days(start_of_week, 7)
        end_of_next_week   == plus_days(start_of_next_week, 4)
    IN  << <<start_of_week, end_of_week>>,
           <<start_of_next_week, end_of_next_week>> >>

get_weeks(now) ==
    LET w == week_dates(now)
    IN  << <<strftime(w[1][1]), strftime(w[1][2])>>,
           <<strftime(w[2][1]), strftime(w[2][2])>> >>

(***************************************************************************)
(* The calendar, stated independently of ordinals: the day after a date,   *)
(* and the clock readings the model draws, counted from a known Monday.    *)
(***************************************************************************)
Anchor == Date(2023, 12, 25)    \* a Monday

DayAfter(dt) ==
    LET leapFeb == dt.month = 2
                   /\ dt.year % 4 = 0
                   /\ (dt.year % 100 # 0 \/ dt.year % 400 = 0)
        last == IF dt.month \in {4, 6, 9, 11} THEN 30
                ELSE IF dt.month # 2 THEN 31
                ELSE IF leapFeb THEN 29 ELSE 28
    IN  IF dt.day < last THEN Date(dt.year, dt.month, dt.day + 1)
        ELSE IF dt.month < 12 THEN Date(dt.year, dt.month + 1, 1)
        ELSE Date(dt.year + 1, 1, 1)

WeekAfter(dt) ==
    DayAfter(DayAfter(DayAfter(DayAfter(DayAfter(DayAfter(DayAfter(dt)))))))

RECURSIVE DaysAfter(_, _)
DaysAfter(dt, n) ==
    IF n = 0 THEN dt
    ELSE IF n >= 7 THEN WeekAfter(DaysAfter(dt, n - 7))
    ELSE DayAfter(DaysAfter(dt, n - 1))

(***************************************************************************)
(* Market capitalisations.  The threshold 10000000000 exceeds the integers *)
(* TLC computes with, so a capitalisation is written in two base-100000    *)
(* limbs: Cap(hi, lo) is the number hi * 100000 + lo, with 0 <= lo < 100000.*)
(***************************************************************************)
Cap(hi, lo) == [hi |-> hi, lo |-> lo]

\* a > b on capitalisations
CapGreater(a, b) == a.hi > b.hi \/ (a.hi = b.hi /\ a.lo > b.lo)

\* 10000000000
CAP_THRESHOLD == Cap(100000, 0)

(***************************************************************************)
(* process_json: the Cap Filter.                                           *)
(***************************************************************************)
RECURSIVE process_json_ge(_)
process_json_ge(earnings_data) ==
    IF earnings_data = <<>> THEN <<>>
    ELSE LET ticker == Head(earnings_data)
             cap == DictGet(ticker, "marketCap", Cap(0, 0))
         IN  (IF ~CapGreater(CAP_THRESHOLD, cap)
              THEN << [symbol |-> ticker.symbol,
                       earningsDate |-> ticker.earningsDate] >>
              ELSE <<>>)
             \o process_json_ge(Tail(earnings_data))

RECURSIVE process_json(_)
process_json(earnings_data) ==
    IF earnings_data = <<>> THEN <<>>
    ELSE LET ticker == Head(earnings_data)
         IN  (IF CapGreater(DictGet(ticker, "marketCap", Cap(0, 0)),
                            CAP_THRESHOLD)
              THEN << [symbol |-> ticker.symbol,
                       earningsDate |-> ticker.earningsDate] >>
              ELSE <<>>)
             \o process_json(Tail(earnings_data))

(***************************************************************************)
(* get_exchange: the Exchange Resolver.  The outcome of one lookup         *)
(* (yf.Ticker(...).info) is either an exception or the metadata dict.      *)
(***************************************************************************)
EXCHANGE_CONVERSION_swapped ==
    [NYQ |-> "NASDAQ", NMS |-> "NYSE", NGM |-> "NASDAQ", OTC |-> "OTC",
     AMEX |-> "ASE"]

EXCHANGE_CONVERSION ==
    [NYQ |-> "NYSE", NMS |-> "NASDAQ", NGM |-> "NASDAQ", OTC |-> "OTC",
     AMEX |-> "ASE"]

Raised(exc) == [kind |-> "raise", exc |-> exc]

Info(info) == [kind |-> "info", info |-> info]

\* the metadata dict with and without an `exchange` field
WithExchange(id) == [quoteType |-> "EQUITY", exchange |-> id]

WithoutExchange == [quoteType |-> "EQUITY"]

\* the body of the try block for one ticker, given the metadata dict
resolve(ticker, info) ==
    LET exchange == DictGet(EXCHANGE_CONVERSION,
                            DictGet(info, "exchange", "Unknown"), "Unknown")
    IN  ("exchange" :> exchange) @@ ticker

\* one iteration of the loop, with "Unknown" appended when the lookup raises
get_exchange_step_keep(ticker, outcome) ==
    IF outcome.kind = "info"
    THEN <<resolve(ticker, outcome.info)>>
    ELSE <<("exchange" :> "Unknown") @@ ticker>>

\* one iteration of the loop, reading info['exchange'] in place of info.get
get_exchange_step_strict(ticker, outcome) ==
    IF outcome.kind = "info" /\ "exchange" \in DOMAIN outcome.info
    THEN <<resolve(ticker, outcome.info)>>
    ELSE <<>>

\* one iteration of the loop: what it appends to formatted_tickers
get_exchange_step(ticker, outcome) ==
    IF outcome.kind = "info"
    THEN <<resolve(ticker, outcome.info)>>
    ELSE IF outcome.exc \in {"IndexError", "KeyError", "ValueError"}
    THEN <<>>      \* except (IndexError, KeyError, ValueError)
    ELSE <<>>      \* except Exception

RECURSIVE get_exchange(_, _)
get_exchange(list_of_tickers, outcomes) ==
    IF list_of_tickers = <<>> THEN <<>>
    ELSE get_exchange_step(Head(list_of_tickers), Head(outcomes))
         \o get_exchange(Tail(list_of_tickers), Tail(outcomes))

(***************************************************************************)
(* process_list: the Date Grouper.  The dict it builds keeps its keys in   *)
(* insertion order: a sequence of [date, entries] items.                   *)
(***************************************************************************)
Keys(dict) == {dict[i].date : i \in DOMAIN dict}

\* earnings_dict.setdefault(date, []).append(x), a new key going first
setdefault_append_front(dict, date, x) ==
    IF date \in Keys(dict)
    THEN [i \in DOMAIN dict |->
            IF dict[i].date = date
            THEN [dict[i] EXCEPT !.entries = Append(@, x)]
            ELSE dict[i]]
    ELSE <<[date |-> date, entries |-> <<x>>]>> \o dict

\* earnings_dict.setdefault(date, []).append(x)
setdefault_append(dict, date, x) ==
    IF date \in Keys(dict)
    THEN [i \in DOMAIN dict |->
            IF dict[i].date = date
            THEN [dict[i] EXCEPT !.entries = Append(@, x)]
            ELSE dict[i]]
    ELSE Append(dict, [date |-> date, entries |-> <<x>>])

RECURSIVE process_list_loop(_, _)
process_list_loop(earnings_dict0, formatted) ==
    IF formatted = <<>> THEN earnings_dict0
    ELSE LET entry == Head(formatted)
             date == entry.earningsDate
             symbol_exchange ==
                 [symbol |-> entry.symbol, exchange |-> entry.exchange]
         IN  process_list_loop(
                 setdefault_append(earnings_dict0, date, symbol_exchange),
                 Tail(formatted))

process_list(formatted) == process_list_loop(<<>>, formatted)

(***************************************************************************)
(* format_watchlist: the Watchlist Formatter.                              *)
(***************************************************************************)
EntryString(entry) == entry.exchange \o ":" \o entry.symbol

\* one date group, with the date after its entries
date_group_trailing(item) ==
    LET date_string == "###" \o item.date
        symbols_string ==
            JoinCommaSpace([i \in DOMAIN item.entries |->
                               EntryString(item.entries[i])])
    IN  symbols_string \o ", " \o date_string

\* one date group: f"{date_string}, {symbols_string}"
date_group(item) ==
    LET date_string == "###" \o item.date
        symbols_string ==
            JoinCommaSpace([i \in DOMAIN item.entries |->
                               EntryString(item.entries[i])])
    IN  date_string \o ", " \o symbols_string

format_watchlist(dict) ==
    JoinCommaSpace([i \in DOMAIN dict |-> date_group(dict[i])])

(***************************************************************************)
(* get_earnings: the Earnings Fetcher.  The response to the one request is *)
(* a transport failure, a non-success status, or a parsed JSON body.       *)
(***************************************************************************)
Response(body) == [kind |-> "ok", body |-> body]

Failure(exc) == [kind |-> exc]

\* get_earnings(week) when the request is answered by `response`
get_earnings(week, response) ==
    IF response.kind = "ok"
    THEN response.body        \* return response.json()
    ELSE <<>>                 \* except requests.RequestException: return []

(***************************************************************************)
(* save_watchlist: the File Writer.                                        *)
(***************************************************************************)
FOLDER_NAME == "earnings_watchlists"

FileName(week) == "Earnings " \o week[1] \o " to " \o week[2] \o ".txt"

FilePath(week) == FOLDER_NAME \o "/" \o FileName(week)

\* open(file_path, "a") and write
WriteFile_append(files, path, content) ==
    (path :> (DictGet(files, path, "") \o content)) @@ files

\* open(file_path, "w") and write: the file holds `content` and nothing else
WriteFile(files, path, content) == (path :> content) @@ files

\* how the calls save_watchlist makes can end
SaveOutcomes ==
    {"makedirs_raises", "open_raises", "write_raises_empty",
     "write_raises_flushed", "ok"}

\* the file system save_watchlist leaves when os.makedirs has succeeded
save_watchlist_fs(fs0, content, week, outcome) ==
    LET path == FilePath(week)
    IN  [dir |-> TRUE,
         files |->
            CASE outcome = "open_raises" -> fs0.files
              [] outcome = "write_raises_empty" ->
                    WriteFile(fs0.files, path, "")
              [] outcome = "write_raises_flushed" ->
                    WriteFile(fs0.files, path, content)
              [] outcome = "ok" -> WriteFile(fs0.files, path, content)]

(***************************************************************************)
(* The values the environment supplies.                                    *)
(***************************************************************************)
Raw(symbol, date, cap) ==
    [symbol |-> symbol, earningsDate |-> date, marketCap |-> cap]

RawNoCap(symbol, date) == [symbol |-> symbol, earningsDate |-> date]

CapChoices ==
    {Cap(0, 0), Cap(99999, 99999), Cap(100000, 0), Cap(100000, 1),
     Cap(4500000, 0)}

RawRecords ==
    {Raw(p[1], p[2], c) :
        p \in {<<"AAPL", "2024-06-10">>, <<"JPM", "2024-06-11">>},
        c \in CapChoices}
    \cup {RawNoCap("AAPL", "2024-06-10"), RawNoCap("JPM", "2024-06-11")}

FilteredTickers ==
    {[symbol |-> "AAPL", earningsDate |-> "2024-06-10"],
     [symbol |-> "JPM", earningsDate |-> "2024-06-10"],
     [symbol |-> "XOM", earningsDate |-> "2024-06-11"]}

ExchangeIds == {"NYQ", "NMS", "NGM", "OTC", "AMEX", "PNK", "NYSE", "nyq"}

LookupOutcomes ==
    {Raised("KeyError"), Raised("ConnectionError"), Info(WithoutExchange)}
    \cup {Info(WithExchange(id)) : id \in ExchangeIds}

ResolvedTickers ==
    [symbol : {"AAPL", "JPM"},
     earningsDate : {"2024-06-11", "2024-06-10"},
     exchange : {"NASDAQ", "Unknown"}]

WatchlistEntries ==
    {[symbol |-> "AAPL", exchange |-> "NASDAQ"],
     [symbol |-> "JPM", exchange |-> "NYSE"]}

WatchlistItems ==
    [date : {"2024-06-10", "2024-06-11", "2024-06-03"},
     entries : NonEmptySeqsUpTo(WatchlistEntries, MaxEntries)]

\* the dicts process_list can return: distinct keys, no empty list
EarningsDicts ==
    {d \in SeqsUpTo(WatchlistItems, MaxKeys) :
        \A i, j \in DOMAIN d : i # j => d[i].date # d[j].date}

\* what the earnings endpoint answers in a run of main
MainResponses ==
    {Failure("ConnectionError"), Failure("HTTPError"),
     Response(<<>>),
     Response(<<Raw("SMALLCO", "2024-06-11", Cap(20000, 0))>>),
     Response(<<Raw("XOM", "2024-06-11", Cap(4500000, 0)),
                Raw("SMALLCO", "2024-06-11", Cap(20000, 0))>>),
     Response(<<Raw("AAPL", "2024-06-10", Cap(4500000, 0)),
                RawNoCap("TINY", "2024-06-10"),
                Raw("JPM", "2024-06-10", Cap(100000, 1))>>)}

\* what the exchange lookup answers in a run of main
MainLookupOutcomes ==
    {Raised("KeyError"), Raised("ConnectionError"), Info(WithoutExchange),
     Info(WithExchange("NYQ")), Info(WithExchange("NMS"))}

\* the days, counted from Anchor, on which a run of main reads the clock
MainDays == {2, 13}

StaleContent == "###1999-01-04, NYSE:OLD"

(***************************************************************************)
(* main: the Orchestrator.                                                 *)
(***************************************************************************)
Pipeline ==
    <<"get_earnings", "process_json", "get_exchange", "process_list",
      "format_watchlist", "save_watchlist">>

NoCall ==
    /\ arg = <<>>
    /\ aux = <<>>
    /\ ret = <<>>
    /\ called = FALSE

MainStart ==
    /\ weeks = <<>>
    /\ wi = 0
    /\ pc = "start"
    /\ earnings = <<>>
    /\ filtered = <<>>
    /\ formatted_tickers = <<>>
    /\ earnings_dict = <<>>
    /\ watchlist_formatted = ""
    /\ calls = [w \in 1..2 |-> <<>>]
    /\ fetched = [w \in 1..2 |-> <<>>]
    /\ lookupLog = [w \in 1..2 |-> <<>>]
    /\ saved = [w \in 1..2 |-> "none"]

Init ==
    /\ dayNo \in MainDays
    /\ monday = DaysAfter(Anchor, dayNo - (dayNo % 7))
    /\ today = DaysAfter(Anchor, dayNo)
    /\ \E old \in {FALSE, TRUE} :
          fs = IF old
               THEN [dir |-> TRUE,
                     files |-> [path \in {FilePath(get_weeks(today)[w]) :
                                              w \in 1..2} |-> StaleContent]]
               ELSE [dir |-> FALSE, files |-> <<>>]
    /\ MainStart
    /\ NoCall

\* `not earnings` with the test made on the filtered list
not_earnings_filtered(e) == process_json(e) = <<>>

\* `not earnings`
not_earnings(e) == e = <<>>

\* the for loop moves to the next week, or main returns
NextWeek ==
    /\ wi' = wi + 1
    /\ pc' = IF wi = Len(weeks) THEN "done" ELSE "fetch"

\* weeks = get_weeks()
GetWeeks ==
    /\ pc = "start"
    /\ weeks' = get_weeks(today)
    /\ wi' = 1
    /\ pc' = "fetch"
    /\ UNCHANGED <<dayNo, monday, today, earnings, filtered, formatted_tickers,
                   earnings_dict, watchlist_formatted, fs, calls, fetched,
                   lookupLog, saved, callVars>>

\* earnings = get_earnings(week)
GetEarnings ==
    /\ pc = "fetch"
    /\ \E response \in MainResponses :
          earnings' = get_earnings(weeks[wi], response)
    /\ fetched' = [fetched EXCEPT ![wi] = earnings']
    /\ calls' = [calls EXCEPT ![wi] = Append(@, "get_earnings")]
    /\ pc' = "check"
    /\ UNCHANGED <<dayNo, monday, today, weeks, wi, filtered, formatted_tickers,
                   earnings_dict, watchlist_formatted, fs, lookupLog, saved,
                   callVars>>

\* if not earnings: print(...); continue
SkipWeek ==
    /\ pc = "check"
    /\ not_earnings(earnings)
    /\ NextWeek
    /\ UNCHANGED <<dayNo, monday, today, weeks, earnings, filtered, formatted_tickers,
                   earnings_dict, watchlist_formatted, fs, calls, fetched,
                   lookupLog, saved, callVars>>

\* process_json(earnings), the argument of get_exchange
ProcessJson ==
    /\ pc = "check"
    /\ ~not_earnings(earnings)
    /\ filtered' = process_json(earnings)
    /\ calls' = [calls EXCEPT ![wi] = Append(@, "process_json")]
    /\ pc' = "resolve"
    /\ UNCHANGED <<dayNo, monday, today, weeks, wi, earnings, formatted_tickers,
                   earnings_dict, watchlist_formatted, fs, fetched, lookupLog,
                   saved, callVars>>

\* formatted_tickers = get_exchange(...): one lookup per filtered ticker
GetExchange ==
    /\ pc = "resolve"
    /\ \E outcomes \in [DOMAIN filtered -> MainLookupOutcomes] :
          /\ formatted_tickers' = get_exchange(filtered, outcomes)
          /\ lookupLog' = [lookupLog EXCEPT ![wi] = outcomes]
    /\ calls' = [calls EXCEPT ![wi] = Append(@, "get_exchange")]
    /\ pc' = "group"
    /\ UNCHANGED <<dayNo, monday, today, weeks, wi, earnings, filtered, earnings_dict,
                   watchlist_formatted, fs, fetched, saved, callVars>>

\* earnings_dict = process_list(formatted_tickers)
ProcessList ==
    /\ pc = "group"
    /\ earnings_dict' = process_list(formatted_tickers)
    /\ calls' = [calls EXCEPT ![wi] = Append(@, "process_list")]
    /\ pc' = "format"
    /\ UNCHANGED <<dayNo, monday, today, weeks, wi, earnings, filtered,
                   formatted_tickers, watchlist_formatted, fs, fetched,
                   lookupLog, saved, callVars>>

\* watchlist_formatted = format_watchlist(earnings_dict)
FormatWatchlist ==
    /\ pc = "format"
    /\ watchlist_formatted' = format_watchlist(earnings_dict)
    /\ calls' = [calls EXCEPT ![wi] = Append(@, "format_watchlist")]
    /\ pc' = "save"
    /\ UNCHANGED <<dayNo, monday, today, weeks, wi, earnings, filtered,
                   formatted_tickers, earnings_dict, fs, fetched, lookupLog,
                   saved, callVars>>

\* save_watchlist(watchlist_formatted, week) returns: the file is written, or
\* the IOError of open or write is caught
SaveWatchlist ==
    /\ pc = "save"
    /\ \E outcome \in SaveOutcomes \ {"makedirs_raises"} :
          /\ fs' = save_watchlist_fs(fs, watchlist_formatted, weeks[wi],
                                     outcome)
          /\ saved' = [saved EXCEPT ![wi] = outcome]
    /\ calls' = [calls EXCEPT ![wi] = Append(@, "save_watchlist")]
    /\ NextWeek
    /\ UNCHANGED <<dayNo, monday, today, weeks, earnings, filtered, formatted_tickers,
                   earnings_dict, watchlist_formatted, fetched, lookupLog,
                   callVars>>

\* save_watchlist(watchlist_formatted, week) raises: os.makedirs is outside
\* the try block, so its OSError leaves save_watchlist and main
SaveWatchlistRaises ==
    /\ pc = "save"
    /\ saved' = [saved EXCEPT ![wi] = "makedirs_raises"]
    /\ calls' = [calls EXCEPT ![wi] = Append(@, "save_watchlist")]
    /\ pc' = "aborted"
    /\ UNCHANGED <<dayNo, monday, today, weeks, wi, earnings, filtered,
                   formatted_tickers, earnings_dict, watchlist_formatted, fs,
                   fetched, lookupLog, callVars>>

Next ==
    \/ GetWeeks
    \/ GetEarnings
    \/ SkipWeek
    \/ ProcessJson
    \/ GetExchange
    \/ ProcessList
    \/ FormatWatchlist
    \/ SaveWatchlist
    \/ SaveWatchlistRaises

Spec == Init /\ [][Next]_vars

(***************************************************************************)
(* Each function of the pipeline applied on its own to the inputs of a     *)
(* bounded set.                                                            *)
(***************************************************************************)
MainIdle ==
    /\ dayNo = 0
    /\ monday = Anchor
    /\ today = Anchor
    /\ fs = [dir |-> FALSE, files |-> <<>>]
    /\ MainStart

InitFilter ==
    /\ MainIdle
    /\ arg \in SeqsUpTo(RawRecords, MaxRecords)
    /\ aux = <<>>
    /\ ret = <<>>
    /\ called = FALSE

CallProcessJson ==
    /\ ~called
    /\ ret' = process_json(arg)
    /\ called' = TRUE
    /\ UNCHANGED <<dayNo, monday, today, mainVars, arg, aux>>

SpecFilter == InitFilter /\ [][CallProcessJson]_vars

InitResolve ==
    /\ MainIdle
    /\ arg \in SeqsUpTo(FilteredTickers, MaxLookups)
    /\ aux \in [DOMAIN arg -> LookupOutcomes]
    /\ ret = <<>>
    /\ called = FALSE

CallGetExchange ==
    /\ ~called
    /\ ret' = get_exchange(arg, aux)
    /\ called' = TRUE
    /\ UNCHANGED <<dayNo, monday, today, mainVars, arg, aux>>

SpecResolve == InitResolve /\ [][CallGetExchange]_vars

InitGroup ==
    /\ MainIdle
    /\ arg \in SeqsUpTo(ResolvedTickers, MaxResolved)
    /\ aux = <<>>
    /\ ret = <<>>
    /\ called = FALSE

CallProcessList ==
    /\ ~called
    /\ ret' = process_list(arg)
    /\ called' = TRUE
    /\ UNCHANGED <<dayNo, monday, today, mainVars, arg, aux>>

SpecGroup == InitGroup /\ [][CallProcessList]_vars

InitFormat ==
    /\ MainIdle
    /\ arg \in EarningsDicts
    /\ aux = <<>>
    /\ ret = ""
    /\ called = FALSE

CallFormatWatchlist ==
    /\ ~called
    /\ ret' = format_watchlist(arg)
    /\ called' = TRUE
    /\ UNCHANGED <<dayNo, monday, today, mainVars, arg, aux>>

SpecFormat == InitFormat /\ [][CallFormatWatchlist]_vars

InitWeeks ==
    /\ dayNo = 0
    /\ monday = Anchor
    /\ today = Anchor
    /\ fs = [dir |-> FALSE, files |-> <<>>]
    /\ MainStart
    /\ NoCall

\* a day passes before the program is started
DayPasses ==
    /\ pc = "start"
    /\ dayNo < MaxDay
    /\ dayNo' = dayNo + 1
    /\ today' = DayAfter(today)
    /\ monday' = IF (dayNo + 1) % 7 = 0 THEN DayAfter(today) ELSE monday
    /\ UNCHANGED <<mainVars, callVars>>

NextWeeks ==
    \/ DayPasses
    \/ GetWeeks

SpecWeeks == InitWeeks /\ [][NextWeeks]_vars

(***************************************************************************)
(* The claims.                                                             *)
(***************************************************************************)
IsPrefix(s, t) == Len(s) <= Len(t) /\ \A i \in DOMAIN s : s[i] = t[i]

\* the number of members of S up to i: the place of i among them
Rank(S, i) == Cardinality({j \in S : j <= i})

\* week w of the loop is behind main
WeekOver(w) == wi > w

\* C1: for each of the two weeks, in order: a week whose fetch returned an
\* empty result gets no exchange lookup and no File Writer call, and main
\* moves on; a week whose fetch returned a non-empty result gets Cap Filter,
\* Exchange Resolver, Date Grouper, Watchlist Formatter and File Writer once
\* each in that order, also when no record survives the filter or resolver.
C1_WeekPipeline ==
    \A w \in 1..2 :
        /\ IsPrefix(calls[w], Pipeline)
        /\ calls[w] # <<>> => wi = w \/ WeekOver(w)
        /\ (w = 2 /\ calls[w] # <<>>) => WeekOver(1)
        /\ Len(calls[w]) >= 3 =>
              Len(lookupLog[w]) = Len(process_json(fetched[w]))
        /\ WeekOver(w) =>
              IF fetched[w] = <<>>
              THEN /\ calls[w] = <<"get_earnings">>
                   /\ lookupLog[w] = <<>>
                   /\ saved[w] = "none"
              ELSE /\ calls[w] = Pipeline
                   /\ saved[w] \in SaveOutcomes
        /\ (pc = "aborted" /\ wi = w) =>
              /\ fetched[w] # <<>>
              /\ calls[w] = Pipeline
        /\ pc = "done" => WeekOver(w)

\* C1 witness: the first week's fetch was empty and the week was skipped; the
\* second week's fetch held one record below the threshold, and the File
\* Writer was still called for it.
C1_Witness ==
    /\ pc = "done"
    /\ fetched[1] = <<>>
    /\ calls[1] = <<"get_earnings">>
    /\ fetched[2] # <<>>
    /\ filtered = <<>>
    /\ calls[2] = Pipeline
    /\ saved[2] = "ok"

\* C2: no failure of the earnings request, of an exchange lookup or of the
\* File Writer (creating the directory, opening or writing the file) lets an
\* exception reach main: the run never ends in an exception.
C2_NoFailureAborts == pc # "aborted"

\* the content the pipeline computes from week w's fetched records and lookups
WeekDocument(w) ==
    format_watchlist(
        process_list(get_exchange(process_json(fetched[w]), lookupLog[w])))

WeekFile(w) ==
    "earnings_watchlists/Earnings " \o weeks[w][1] \o " to " \o weeks[w][2]
        \o ".txt"

\* C5: after a week whose fetch is non-empty and whose write succeeds, that
\* week's file holds exactly the document computed from that week's records
\* and lookups, in place of any earlier content; a week that wrote nothing
\* leaves its file as it was; the two weeks' files are distinct.
C5_FileContent ==
    weeks # <<>> =>
        /\ WeekFile(1) # WeekFile(2)
        /\ \A w \in 1..2 :
              /\ saved[w] = "ok" =>
                    /\ fetched[w] # <<>>
                    /\ WeekFile(w) \in DOMAIN fs.files
                    /\ fs.files[WeekFile(w)] = WeekDocument(w)
              /\ saved[w] \in {"none", "open_raises", "makedirs_raises"} =>
                    \/ WeekFile(w) \notin DOMAIN fs.files
                    \/ fs.files[WeekFile(w)] = StaleContent

\* C5 witness: both weeks were written over stale files, each with its own
\* document.
C5_Witness ==
    /\ pc = "done"
    /\ saved[1] = "ok"
    /\ saved[2] = "ok"
    /\ fs.files[WeekFile(1)] = "###2024-06-10, NASDAQ:AAPL, NYSE:JPM"
    /\ fs.files[WeekFile(2)] = "###2024-06-11, NYSE:XOM"

\* the records of `arg` whose marketCap is present and above 10000000000
Kept ==
    {i \in DOMAIN arg :
        /\ "marketCap" \in DOMAIN arg[i]
        /\ arg[i].marketCap \in {Cap(100000, 1), Cap(4500000, 0)}}

\* C4: process_json returns, in input order, one {symbol, earningsDate} entry
\* for exactly the records whose marketCap is strictly greater than
\* 10000000000; absent marketCap counts as 0; the empty input gives [].
C4_CapFilter ==
    called =>
        /\ Len(ret) = Cardinality(Kept)
        /\ \A i \in Kept :
              ret[Rank(Kept, i)] =
                  [symbol |-> arg[i].symbol,
                   earningsDate |-> arg[i].earningsDate]
        /\ arg = <<>> => ret = <<>>

\* C4 witness: a record without marketCap, one at exactly the threshold and
\* one just above it; only the last is returned.
C4_Witness ==
    /\ called
    /\ Len(arg) = 3
    /\ "marketCap" \notin DOMAIN arg[1]
    /\ arg[2] = Raw("AAPL", "2024-06-10", Cap(100000, 0))
    /\ arg[3] = Raw("JPM", "2024-06-11", Cap(100000, 1))
    /\ ret = <<[symbol |-> "JPM", earningsDate |-> "2024-06-11"]>>

\* the tickers of `arg` whose lookup returned metadata
Looked == {i \in DOMAIN arg : aux[i].kind = "info"}

\* C3: get_exchange returns exactly the tickers whose lookup succeeded, in
\* input order, with symbol and earningsDate unchanged and an exchange field
\* added; a ticker whose lookup raised is absent and changes nothing else.
C3_ResolvedExactlyLookedUp ==
    called =>
        /\ Len(ret) = Cardinality(Looked)
        /\ \A i \in Looked :
              LET r == ret[Rank(Looked, i)]
              IN  /\ DOMAIN r = {"symbol", "earningsDate", "exchange"}
                  /\ r.symbol = arg[i].symbol
                  /\ r.earningsDate = arg[i].earningsDate

\* C3 witness: the first lookup raised, the second succeeded.
C3_Witness ==
    /\ called
    /\ Len(arg) = 2
    /\ aux[1].kind = "raise"
    /\ aux[2].kind = "info"
    /\ Len(ret) = 1
    /\ ret[1].symbol = arg[2].symbol
    /\ arg[1].symbol # arg[2].symbol

\* C6 as stated: a symbol whose metadata has no `exchange` field is excluded
\* from the output of get_exchange.
C6_MissingExchangeExcluded ==
    called =>
        \A i \in DOMAIN arg :
            (/\ aux[i] = Info(WithoutExchange)
             /\ \A k \in DOMAIN arg : arg[k].symbol = arg[i].symbol => k = i)
            => \A j \in DOMAIN ret : ret[j].symbol # arg[i].symbol

\* C6 as amended: a symbol whose metadata has no `exchange` field is included
\* in the output of get_exchange, with exchange "Unknown".
C6_MissingExchangeUnknown ==
    called =>
        \A i \in DOMAIN arg :
            (aux[i].kind = "info" /\ "exchange" \notin DOMAIN aux[i].info)
            => /\ Rank(Looked, i) \in DOMAIN ret
               /\ ret[Rank(Looked, i)].symbol = arg[i].symbol
               /\ ret[Rank(Looked, i)].exchange = "Unknown"

\* C6 witness: the only lookup returned metadata without `exchange`.
C6_Witness ==
    /\ called
    /\ Len(arg) = 1
    /\ aux[1] = Info(WithoutExchange)
    /\ ret = <<[symbol |-> arg[1].symbol,
                earningsDate |-> arg[1].earningsDate,
                exchange |-> "Unknown"]>>

\* the table of section 4.4, row by row
TableCode(info) ==
    IF "exchange" \notin DOMAIN info THEN "Unknown"
    ELSE CASE info.exchange = "NYQ" -> "NYSE"
           [] info.exchange = "NMS" -> "NASDAQ"
           [] info.exchange = "NGM" -> "NASDAQ"
           [] info.exchange = "OTC" -> "OTC"
           [] info.exchange = "AMEX" -> "ASE"
           [] OTHER -> "Unknown"

\* C7: the exchange of a resolved ticker is the table value of the identifier
\* the lookup returned (NYQ NYSE, NMS NASDAQ, NGM NASDAQ, OTC OTC, AMEX ASE)
\* and "Unknown" for any other or absent identifier; every output exchange is
\* one of NYSE, NASDAQ, OTC, ASE, Unknown.
C7_ExchangeTable ==
    called =>
        /\ \A i \in Looked :
              ret[Rank(Looked, i)].exchange = TableCode(aux[i].info)
        /\ \A j \in DOMAIN ret :
              ret[j].exchange \in {"NYSE", "NASDAQ", "OTC", "ASE", "Unknown"}

\* C7 witness: one identifier of the table and one that is not in it.
C7_Witness ==
    /\ called
    /\ Len(arg) = 2
    /\ aux[1] = Info(WithExchange("NYQ"))
    /\ aux[2] = Info(WithExchange("NYSE"))
    /\ ret[1].exchange = "NYSE"
    /\ ret[2].exchange = "Unknown"

\* the tickers of `arg` with earnings date d, as {symbol, exchange} pairs
WithDate(d) ==
    LET OnDate(t) == t.earningsDate = d
        sel == SelectSeq(arg, OnDate)
    IN  [i \in DOMAIN sel |->
            [symbol |-> sel[i].symbol, exchange |-> sel[i].exchange]]

FirstIndex(d) ==
    CHOOSE i \in DOMAIN arg :
        /\ arg[i].earningsDate = d
        /\ \A j \in 1..(i - 1) : arg[j].earningsDate # d

\* C8: process_list returns a mapping whose keys are the distinct
\* earningsDate values of the input in order of first occurrence, each with
\* the non-empty list of the {symbol, exchange} pairs of the tickers of that
\* date in their original order; the empty input gives the empty mapping.
C8_DateGrouping ==
    called =>
        LET dates == {arg[i].earningsDate : i \in DOMAIN arg}
        IN  /\ Keys(ret) = dates
            /\ Len(ret) = Cardinality(dates)
            /\ \A a, b \in DOMAIN ret :
                  a < b => FirstIndex(ret[a].date) < FirstIndex(ret[b].date)
            /\ \A k \in DOMAIN ret :
                  /\ ret[k].entries # <<>>
                  /\ ret[k].entries = WithDate(ret[k].date)
            /\ arg = <<>> => ret = <<>>

\* C8 witness: three tickers on two dates, the later date first.
C8_Witness ==
    /\ called
    /\ Len(arg) = 3
    /\ arg[1].earningsDate = "2024-06-11"
    /\ arg[2].earningsDate = "2024-06-10"
    /\ arg[3].earningsDate = "2024-06-11"
    /\ arg[1].symbol # arg[3].symbol
    /\ Len(ret) = 2
    /\ ret[1].date = "2024-06-11"
    /\ Len(ret[1].entries) = 2
    /\ ret[1].entries[2].symbol = arg[3].symbol

\* the pieces of the document, date headers and entries, in one list
RECURSIVE Pieces(_)
Pieces(dict) ==
    IF dict = <<>> THEN <<>>
    ELSE <<"###" \o dict[1].date>>
         \o [i \in DOMAIN dict[1].entries |->
                dict[1].entries[i].exchange \o ":"
                    \o dict[1].entries[i].symbol]
         \o Pieces(Tail(dict))

RECURSIVE Glue(_, _)
Glue(done, pieces) ==
    IF pieces = <<>> THEN done
    ELSE Glue(done \o ", " \o Head(pieces), Tail(pieces))

\* C9: format_watchlist returns, for the date keys in insertion order, the
\* pieces ###<date> and <exchange>:<symbol> of every date, all joined by
\* comma-space; the empty mapping gives the empty string, and
\* {2024-06-10: [AAPL/NASDAQ, JPM/NYSE]} gives
\* "###2024-06-10, NASDAQ:AAPL, NYSE:JPM".
C9_Format ==
    called =>
        /\ arg = <<>> => ret = ""
        /\ arg # <<>> =>
              ret = Glue(Head(Pieces(arg)), Tail(Pieces(arg)))
        /\ arg = <<[date |-> "2024-06-10",
                    entries |-> <<[symbol |-> "AAPL", exchange |-> "NASDAQ"],
                                  [symbol |-> "JPM", exchange |-> "NYSE"]>>]>>
              => ret = "###2024-06-10, NASDAQ:AAPL, NYSE:JPM"

\* C9 witness: two date keys, the later date inserted first.
C9_Witness ==
    /\ called
    /\ Len(arg) = 2
    /\ arg[1].date = "2024-06-11"
    /\ arg[2].date = "2024-06-10"
    /\ ret = "###2024-06-11, NYSE:JPM, ###2024-06-10, NASDAQ:AAPL, NYSE:JPM"

\* C10: on any day of the week get_weeks returns two weeks: the first from
\* the Monday that is today minus today's weekday offset (Monday = 0) to the
\* Friday 4 days later, the second from 7 days after that Monday to 4 days
\* after its own start; the weeks do not overlap or share a start date.
C10_Weeks ==
    pc = "fetch" =>
        /\ weekday(today) = dayNo % 7
        /\ DaysAfter(monday, weekday(today)) = today
        /\ Len(weeks) = 2
        /\ weeks[1] = <<strftime(monday), strftime(DaysAfter(monday, 4))>>
        /\ weeks[2] = <<strftime(DaysAfter(monday, 7)),
                        strftime(DaysAfter(monday, 11))>>
        /\ weeks[1][1] # weeks[2][1]
        /\ {weeks[1][1], weeks[1][2]} \cap {weeks[2][1], weeks[2][2]} = {}
        /\ dayNo = 2 =>
              weeks = << <<"2023-12-25", "2023-12-29">>,
                         <<"2024-01-01", "2024-01-05">> >>
        /\ dayNo = 66 =>
              weeks = << <<"2024-02-26", "2024-03-01">>,
                         <<"2024-03-04", "2024-03-08">> >>

\* C10 witness: the clock is read on Sunday 2024-03-03.
C10_Witness ==
    /\ pc = "fetch"
    /\ today = Date(2024, 3, 3)
    /\ weekday(today) = 6
    /\ weeks = << <<"2024-02-26", "2024-03-01">>,
                  <<"2024-03-04", "2024-03-08">> >>

====
